---- MODULE Spec2Model ----
(***************************************************************************)
(* A model of drivers/hid/hid-generic.c: the fallback matcher, the         *)
(* discovery of Resolution Multiplier feature fields, their activation     *)
(* at probe and at reset-resume, the capability advertisement and the      *)
(* translation of wheel events.                                            *)
(*                                                                         *)
(* C integers: an unsigned or __s32 object is held as the signed value of  *)
(* its 32-bit pattern (so (unsigned)-1 is -1 here); Add32/Mul32 compute    *)
(* modulo 2^32 on such patterns.                                           *)
(***************************************************************************)
EXTENDS Integers, Sequences, FiniteSets, TLC

(* ------------------------------ bounds -------------------------------- *)
\* most feature fields a modelled report descriptor declares
MaxFeatureFields == 3
\* most activations (one at probe, the rest at reset-resume) in one run
MaxActivations == 3
\* most drivers registered on the bus
MaxDrivers == 3

(* --------------------------- 32-bit arithmetic ------------------------ *)
INT_MAX == 2147483647
INT_MIN == (-INT_MAX) - 1

\* a + b modulo 2^32, on 32-bit patterns
Add32(a, b) ==
    IF a > 0 /\ b > 0 /\ a > INT_MAX - b
        THEN (a + INT_MIN) + (b + INT_MIN)
    ELSE IF a < 0 /\ b < 0 /\ a < INT_MIN - b
        THEN (a - INT_MIN) + (b - INT_MIN)
    ELSE a + b

\* -a modulo 2^32
Neg32(a) == IF a = INT_MIN THEN INT_MIN ELSE -a

\* a * k modulo 2^32 for 0 <= k <= 256: a is split in its low 16 bits and
\* the rest, so that no intermediate result leaves the 32-bit range
MulSmall32(a, k) ==
    LET low == a % 65536
        high == (a - low) \div 65536
        t == (high * k) % 65536
        top == IF t >= 32768 THEN t - 65536 ELSE t
    IN  Add32(top * 65536, low * k)

RECURSIVE MulNat32(_, _)
\* a * b modulo 2^32 for b >= 0, eight bits of b at a time
MulNat32(a, b) ==
    IF b = 0 THEN 0
    ELSE Add32(MulSmall32(MulNat32(a, b \div 256), 256), MulSmall32(a, b % 256))

\* a product taken as an unsigned number and cut off at INT_MAX when it
\* is read back as an int
Mul32_saturating(a, b) ==
    LET p == IF b >= 0 THEN MulNat32(a, b)
             ELSE IF b = INT_MIN THEN (IF a % 2 = 0 THEN 0 ELSE INT_MIN)
             ELSE Neg32(MulNat32(a, -b))
    IN  IF p < 0 THEN INT_MAX ELSE p

\* a * b modulo 2^32: the product the C expression "value * multiplier"
\* has when one operand is unsigned, read back as an int
Mul32(a, b) ==
    IF b >= 0 THEN MulNat32(a, b)
    ELSE IF b = INT_MIN THEN (IF a % 2 = 0 THEN 0 ELSE INT_MIN)
    ELSE Neg32(MulNat32(a, -b))

\* the unsigned comparison "m > 1" on a 32-bit pattern
UnsignedGreaterThanOne(m) == m > 1 \/ m < 0

(* ------------------------------ usages -------------------------------- *)
HID_GD_WHEEL == "HID_GD_WHEEL"
HID_CP_AC_PAN == "HID_CP_AC_PAN"
HID_GD_RESOLUTION_MULTIPLIER == "HID_GD_RESOLUTION_MULTIPLIER"
\* a usage this driver has no interest in
HID_GD_X == "HID_GD_X"

HID_QUIRK_HAVE_SPECIAL_DRIVER == "HID_QUIRK_HAVE_SPECIAL_DRIVER"
HID_QUIRK_INPUT_PER_APP == "HID_QUIRK_INPUT_PER_APP"

(* -------------------- report descriptors (inputs) --------------------- *)
\* struct hid_usage
Usage(hid, collection, index) ==
    [hid |-> hid, collection_index |-> collection, usage_index |-> index]

\* struct hid_field: usage is the field's usage array (field->usage is its
\* first element), value the field's value array, zeroed when registered
Field(index, hids, collection, lmax, pmax) ==
    [index |-> index,
     usage |-> [n \in 1..Len(hids) |-> Usage(hids[n], collection, n - 1)],
     logical_maximum |-> lmax,
     physical_maximum |-> pmax,
     value |-> [n \in 1..Len(hids) |-> 0]]

\* struct hid_report
Report(id, fields) == [id |-> id, maxfield |-> Len(fields), field |-> fields]

\* The input-direction report sets of the modelled devices.
InputLayouts ==
    { \* a wheel alone
      << Report(1, << Field(0, <<HID_GD_WHEEL>>, 0, 127, 127) >>) >>,
      \* a wheel and a horizontal wheel, each in its own field and collection
      << Report(1, << Field(0, <<HID_GD_WHEEL>>, 0, 127, 127),
                      Field(1, <<HID_CP_AC_PAN>>, 1, 127, 127) >>) >>,
      \* the usual mouse: X and the wheel are usages of one field
      << Report(1, << Field(0, <<HID_GD_X, HID_GD_WHEEL>>, 0, 127, 127) >>) >>,
      \* a wheel in its own field, the horizontal wheel sharing a field with X
      << Report(1, << Field(0, <<HID_GD_WHEEL>>, 0, 127, 127) >>),
         Report(2, << Field(0, <<HID_GD_X, HID_CP_AC_PAN>>, 1, 127, 127) >>) >>,
      \* both wheels as usages of one field
      << Report(1, << Field(0, <<HID_GD_WHEEL, HID_CP_AC_PAN>>, 1, 127, 127) >>) >>,
      \* no wheel at all
      << Report(1, << Field(0, <<HID_GD_X>>, 0, 127, 127) >>) >> }

\* The feature fields a modelled descriptor is made of: the report the
\* field belongs to, its usages, its collection and its ranges.
FeatureFieldKinds ==
    { [report |-> 1, hids |-> <<HID_GD_RESOLUTION_MULTIPLIER>>,
       collection |-> 0, logical_maximum |-> 1, physical_maximum |-> 8],
      [report |-> 1, hids |-> <<HID_GD_RESOLUTION_MULTIPLIER>>,
       collection |-> 1, logical_maximum |-> 3, physical_maximum |-> 4],
      [report |-> 2, hids |-> <<HID_GD_RESOLUTION_MULTIPLIER>>,
       collection |-> 0, logical_maximum |-> 1, physical_maximum |-> 1],
      [report |-> 2, hids |-> <<HID_GD_RESOLUTION_MULTIPLIER>>,
       collection |-> 1, logical_maximum |-> 3, physical_maximum |-> 0],
      [report |-> 2, hids |-> <<HID_GD_RESOLUTION_MULTIPLIER>>,
       collection |-> 0, logical_maximum |-> 3, physical_maximum |-> -1],
      [report |-> 1, hids |-> <<HID_GD_X, HID_GD_RESOLUTION_MULTIPLIER>>,
       collection |-> 0, logical_maximum |-> 1, physical_maximum |-> 8],
      [report |-> 2, hids |-> <<HID_GD_X>>,
       collection |-> 1, logical_maximum |-> 1, physical_maximum |-> 1] }

\* feature descriptors: the feature fields in the order the device declares them
FeatureDescriptors ==
    UNION { [1..n -> FeatureFieldKinds] : n \in 0..MaxFeatureFields }

RECURSIVE ReportIdsOf(_, _)
\* the report ids of a descriptor, in the order they are first declared
ReportIdsOf(desc, seen) ==
    IF desc = <<>> THEN seen
    ELSE LET id == Head(desc).report
         IN  ReportIdsOf(Tail(desc),
                         IF \E k \in 1..Len(seen) : seen[k] = id
                             THEN seen ELSE Append(seen, id))

\* the report list the parser registers for a feature descriptor: one
\* report per id, its fields indexed in declaration order
FeatureReports(desc) ==
    LET ids == ReportIdsOf(desc, <<>>)
        fieldsOf(id) == SelectSeq(desc, LAMBDA k : k.report = id)
        build(id) ==
            LET ks == fieldsOf(id)
            IN  Report(id, [i \in 1..Len(ks) |->
                    Field(i - 1, ks[i].hids, ks[i].collection,
                          ks[i].logical_maximum, ks[i].physical_maximum)])
    IN  [r \in 1..Len(ids) |-> build(ids[r])]

\* the event value the transport delivers to the attached device; the
\* translator is taken over the whole value range under SpecTranslate
EventValues == {3}

(* --------------------------- fallback matcher ------------------------- *)
\* the driver structure hid_generic_match compares against
hid_generic == "hid-generic"

\* A registered driver: its name and whether its id table matches the
\* device (the result of hid_match_device for it).
DriverKinds ==
    { [name |-> hid_generic, id_match |-> TRUE],
      [name |-> "hid-special", id_match |-> TRUE],
      [name |-> "hid-unrelated", id_match |-> FALSE] }

\* the driver lists of the bus
DriverRegistries == UNION { [1..n -> DriverKinds] : n \in 0..MaxDrivers }

\* hid_match_device(hdev, hdrv) != NULL
hid_match_device(hdrv) == hdrv.id_match

check_hid_generic_any(hdrv) ==
    IF hid_match_device(hdrv) THEN 1 ELSE 0

check_hid_generic(hdrv) ==
    IF hdrv.name = hid_generic THEN 0
    ELSE IF hid_match_device(hdrv) THEN 1 ELSE 0

RECURSIVE bus_for_each_drv(_)
\* calls check_hid_generic on each driver in turn and stops at the first
\* non-zero result, which it returns
bus_for_each_drv(drvs) ==
    IF drvs = <<>> THEN 0
    ELSE LET error == check_hid_generic(Head(drvs))
         IN  IF error # 0 THEN error ELSE bus_for_each_drv(Tail(drvs))

hid_generic_match_unforced(hdev_quirks, drvs, ignore_special) ==
    IF HID_QUIRK_HAVE_SPECIAL_DRIVER \in hdev_quirks THEN FALSE
    ELSE IF bus_for_each_drv(drvs) # 0 THEN FALSE
    ELSE TRUE

hid_generic_match(hdev_quirks, drvs, ignore_special) ==
    IF ignore_special THEN TRUE
    ELSE IF HID_QUIRK_HAVE_SPECIAL_DRIVER \in hdev_quirks THEN FALSE
    ELSE IF bus_for_each_drv(drvs) # 0 THEN FALSE
    ELSE TRUE

(* ------------------------- capability scanner ------------------------- *)
\* re is hdev->report_enum: [input |-> report list, feature |-> report list]
usage_in_collection(re, usage_id, collection) ==
    \E r \in 1..Len(re.input) :
        \E i \in 1..re.input[r].maxfield :
            LET field == re.input[r].field[i]
                usage == field.usage[1]
            IN  usage.hid = usage_id /\ usage.collection_index = collection

(* ------------------------- multiplier discovery ----------------------- *)
\* struct hid_generic_device as probe initialises it
NewDevice ==
    [wheel_multiplier |-> 1,
     hwheel_multiplier |-> 1,
     report_id |-> << -1, -1 >>,
     field_index |-> << -1, -1 >>,
     device |-> "NULL"]

\* a handler that takes a slot for every Resolution Multiplier field,
\* whatever its collection holds
handle_resolution_multiplier_counting(d, re, rep, field, usage) ==
    LET multiplier == field.physical_maximum
        w == usage_in_collection(re, HID_GD_WHEEL, usage.collection_index)
        h == usage_in_collection(re, HID_CP_AC_PAN, usage.collection_index)
        d1 == [d EXCEPT !.wheel_multiplier = IF w THEN multiplier ELSE @,
                        !.hwheel_multiplier = IF h THEN multiplier ELSE @]
        assign(which) == [d1 EXCEPT !.report_id[which] = rep.id,
                                    !.field_index[which] = field.index]
    IN  IF d1.report_id[1] = -1 THEN assign(1)
        ELSE IF d1.report_id[2] = -1 THEN assign(2)
        ELSE [d1 EXCEPT !.wheel_multiplier = 1, !.hwheel_multiplier = 1]

handle_resolution_multiplier(d, re, rep, field, usage) ==
    LET multiplier == field.physical_maximum
        w == usage_in_collection(re, HID_GD_WHEEL, usage.collection_index)
        h == usage_in_collection(re, HID_CP_AC_PAN, usage.collection_index)
        d1 == [d EXCEPT !.wheel_multiplier = IF w THEN multiplier ELSE @,
                        !.hwheel_multiplier = IF h THEN multiplier ELSE @]
        assign(which) == [d1 EXCEPT !.report_id[which] = rep.id,
                                    !.field_index[which] = field.index]
    IN  IF ~w /\ ~h THEN d
        ELSE IF d1.report_id[1] = -1 THEN assign(1)
        ELSE IF d1.report_id[2] = -1 THEN assign(2)
        ELSE [d1 EXCEPT !.wheel_multiplier = 1, !.hwheel_multiplier = 1]

RECURSIVE fetch_from(_, _, _, _)
\* the two loops of hid_generic_fetch_resolution_multiplier, resumed at
\* field i (from 1) of report r (from 1) of the feature report list
fetch_from(d, re, r, i) ==
    IF r > Len(re.feature) THEN d
    ELSE IF i > re.feature[r].maxfield THEN fetch_from(d, re, r + 1, 1)
    ELSE LET rep == re.feature[r]
             field == rep.field[i]
             usage == field.usage[1]
         IN  fetch_from(IF usage.hid = HID_GD_RESOLUTION_MULTIPLIER
                            THEN handle_resolution_multiplier(d, re, rep, field, usage)
                            ELSE d,
                        re, r, i + 1)

hid_generic_fetch_resolution_multiplier(d, re) == fetch_from(d, re, 1, 1)

(* ------------------------- multiplier activator ----------------------- *)
\* report_enum->report_id_hash[id]: the position of report id in the list
report_id_hash(reports, id) ==
    CHOOSE r \in 1..Len(reports) : reports[r].id = id

\* hid_hw_request(hdev, rep, HID_REQ_SET_REPORT): the request the transport
\* gets, the report with the values its fields hold at the call
hid_hw_request(rep, reqtype) ==
    [report |-> rep.id,
     reqtype |-> reqtype,
     data |-> [f \in 1..rep.maxfield |-> rep.field[f].value]]

RECURSIVE set_from_physical(_, _, _, _)
\* an activation loop that writes the physical maximum, the multiplier,
\* where the logical maximum belongs
set_from_physical(d, feature, requests, i) ==
    IF i > 2 \/ d.report_id[i] = -1
        THEN [dev |-> d, feature |-> feature, requests |-> requests]
    ELSE LET r == report_id_hash(feature, d.report_id[i])
             f == d.field_index[i] + 1
             field == feature[r].field[f]
             index == field.usage[1].usage_index
             written == [feature EXCEPT
                             ![r].field[f].value[index + 1] = field.physical_maximum]
         IN  set_from_physical(d, written,
                               Append(requests,
                                      hid_hw_request(written[r], "HID_REQ_SET_REPORT")),
                               i + 1)

RECURSIVE set_from(_, _, _, _)
\* the loop of hid_generic_set_resolution_multiplier, resumed at slot i
\* (from 1); requests are the requests issued so far
set_from(d, feature, requests, i) ==
    IF i > 2 \/ d.report_id[i] = -1
        THEN [dev |-> d, feature |-> feature, requests |-> requests]
    ELSE LET r == report_id_hash(feature, d.report_id[i])
             f == d.field_index[i] + 1
             field == feature[r].field[f]
             index == field.usage[1].usage_index
             written == [feature EXCEPT
                             ![r].field[f].value[index + 1] = field.logical_maximum]
         IN  set_from(d, written,
                      Append(requests,
                             hid_hw_request(written[r], "HID_REQ_SET_REPORT")),
                      i + 1)

\* an activator that falls back to a multiplier of 1 once it has issued
\* its requests
set_resolution_multiplier_reverting(d, feature) ==
    IF d.wheel_multiplier = 1 /\ d.hwheel_multiplier = 1
        THEN [dev |-> d, feature |-> feature, requests |-> <<>>]
    ELSE LET done == set_from(d, feature, <<>>, 1)
         IN  [done EXCEPT !.dev.wheel_multiplier = 1, !.dev.hwheel_multiplier = 1]

\* an activator that issues each of its requests a second time
set_resolution_multiplier_retrying(d, feature) ==
    IF d.wheel_multiplier = 1 /\ d.hwheel_multiplier = 1
        THEN [dev |-> d, feature |-> feature, requests |-> <<>>]
    ELSE LET done == set_from(d, feature, <<>>, 1)
         IN  [done EXCEPT !.requests = done.requests \o done.requests]

\* an activator that releases the second slot once it has written it
set_resolution_multiplier_forgetful(d, feature) ==
    IF d.wheel_multiplier = 1 /\ d.hwheel_multiplier = 1
        THEN [dev |-> d, feature |-> feature, requests |-> <<>>]
    ELSE LET done == set_from(d, feature, <<>>, 1)
         IN  [done EXCEPT !.dev.report_id[2] = -1, !.dev.field_index[2] = -1]

\* the result of the activator: the device context, the feature reports
\* and the requests issued, in order
hid_generic_set_resolution_multiplier(d, feature) ==
    IF d.wheel_multiplier = 1 /\ d.hwheel_multiplier = 1
        THEN [dev |-> d, feature |-> feature, requests |-> <<>>]
    ELSE set_from(d, feature, <<>>, 1)

(* --------------------------- event translator ------------------------- *)
\* input_report_rel(device, code, value) / input_sync(device)
input_report_rel(device, code, value) ==
    [device |-> device, type |-> "EV_REL", code |-> code, value |-> value]

input_sync(device) ==
    [device |-> device, type |-> "EV_SYN", code |-> "SYN_REPORT", value |-> 0]

\* the usage table: usage, event type, event code
hid_generic_grabbed_usages_wide ==
    << [usage_hid |-> HID_GD_WHEEL, usage_type |-> "EV_REL", usage_code |-> "REL_WHEEL"],
       [usage_hid |-> HID_CP_AC_PAN, usage_type |-> "EV_REL", usage_code |-> "REL_HWHEEL"],
       [usage_hid |-> HID_GD_X, usage_type |-> "EV_REL", usage_code |-> "REL_X"] >>

hid_generic_grabbed_usages ==
    << [usage_hid |-> HID_GD_WHEEL, usage_type |-> "EV_REL", usage_code |-> "REL_WHEEL"],
       [usage_hid |-> HID_CP_AC_PAN, usage_type |-> "EV_REL", usage_code |-> "REL_HWHEEL"] >>

\* whether the core hands an event of this usage to the driver's event
\* handler: the usage is in the driver's usage table (the input layer maps
\* each of these usages to the type and code of its row)
hid_match_usage(usage) ==
    \E k \in 1..Len(hid_generic_grabbed_usages) :
        hid_generic_grabbed_usages[k].usage_hid = usage.hid

\* the events the handler sends to the sink, in order, and its return value
hid_generic_event(d, field, usage, value) ==
    LET device == d.device
        first == field.usage[1].hid
    IN  [emitted |->
            IF first = HID_GD_WHEEL
                THEN << input_report_rel(device, "REL_WHEEL_HI_RES",
                                         Mul32(value, d.wheel_multiplier)),
                        input_report_rel(device, "REL_WHEEL", value),
                        input_sync(device) >>
            ELSE IF first = HID_CP_AC_PAN
                THEN << input_report_rel(device, "REL_HWHEEL_HI_RES",
                                         Mul32(value, d.hwheel_multiplier)),
                        input_report_rel(device, "REL_HWHEEL", value),
                        input_sync(device) >>
            ELSE <<>>,
         ret |-> 1]

(* ----------------------- capability advertisement --------------------- *)
hid_generic_input_configured_eager(d, input) ==
    [dev |-> [d EXCEPT !.device = input],
     capability |->
        (IF d.wheel_multiplier # 0 THEN {"REL_WHEEL_HI_RES"} ELSE {})
        \cup (IF d.hwheel_multiplier # 0 THEN {"REL_HWHEEL_HI_RES"} ELSE {}),
     ret |-> 0]

\* the device context and the capabilities set on the input device
hid_generic_input_configured(d, input) ==
    [dev |-> [d EXCEPT !.device = input],
     capability |->
        (IF UnsignedGreaterThanOne(d.wheel_multiplier)
            THEN {"REL_WHEEL_HI_RES"} ELSE {})
        \cup (IF UnsignedGreaterThanOne(d.hwheel_multiplier)
            THEN {"REL_HWHEEL_HI_RES"} ELSE {}),
     ret |-> 0]

(* ------------------------------- state -------------------------------- *)
VARIABLES
    rdesc,                  \* the device's report descriptor, as the parser reads it
    report_enum,            \* hdev->report_enum: the parsed input and feature reports
    quirks,                 \* hdev->quirks
    ignore_special_driver,  \* the force flag the matcher is called with
    drivers,                \* the drivers registered on the bus
    match_result,           \* <<>> before the matcher has run, then << its result >>
    dev,                    \* struct hid_generic_device
    pc,                     \* where the driver stands with this device
    ret,                    \* probe's local ret: what its last callee returned
    probe_ret,              \* <<>>, or << the value probe returned >>
    started,                \* hid_hw_start succeeded
    capability,             \* event codes this driver set on the input device
    event,                  \* <<>>, or << the last event delivered >>
    emitted,                \* what the handler sent to the sink for that event
    event_ret,              \* what the core got back: 0 when the handler was not called
    requests,               \* the write requests of the last activation, in order
    prev_requests,          \* those of the activation before it
    activation_dev,         \* the device context the last activation started from
    activations,            \* activations so far
    request_failed,         \* the transport failed a request of the last activation
    resume_ret              \* <<>>, or << what the last reset-resume returned >>

vars ==
    << rdesc, report_enum, quirks, ignore_special_driver, drivers, match_result,
       dev, pc, ret, probe_ret, started, capability, event, emitted, event_ret, requests,
       prev_requests, activation_dev, activations, request_failed, resume_ret >>

matcher_vars == << ignore_special_driver, drivers, match_result >>
sink_vars == << event, emitted, event_ret >>
activation_vars ==
    << requests, prev_requests, activation_dev, activations, request_failed >>

ENOMEM == 12
\* what hid_parse and hid_hw_start may fail with: -EINVAL or -EIO, -ENODEV
ParseErrors == {-22, -5}
StartErrors == {-19}

\* the state a device is in when the bus offers it to the driver
Unbound(descriptor, q, force, drvs, at) ==
    /\ rdesc = descriptor
    /\ report_enum = [input |-> <<>>, feature |-> <<>>]
    /\ quirks = q
    /\ ignore_special_driver = force
    /\ drivers = drvs
    /\ match_result = <<>>
    /\ dev = NewDevice
    /\ pc = at
    /\ ret = 0
    /\ probe_ret = <<>>
    /\ started = FALSE
    /\ capability = {}
    /\ event = <<>>
    /\ emitted = <<>>
    /\ event_ret = 0
    /\ requests = <<>>
    /\ prev_requests = <<>>
    /\ activation_dev = NewDevice
    /\ activations = 0
    /\ request_failed = FALSE
    /\ resume_ret = <<>>

(* ----------------------------- the matcher ---------------------------- *)
\* the bus asks the driver whether it wants the device
Match ==
    /\ pc = "match"
    /\ match_result' = << hid_generic_match(quirks, drivers, ignore_special_driver) >>
    /\ pc' = IF match_result'[1] THEN "probe" ELSE "rejected"
    /\ UNCHANGED << rdesc, report_enum, quirks, ignore_special_driver, drivers,
                    dev, ret, probe_ret, started, capability, resume_ret >>
    /\ UNCHANGED sink_vars
    /\ UNCHANGED activation_vars

(* ------------------------------- probe -------------------------------- *)
\* devm_kzalloc and the initialisation of the device context
ProbeAlloc ==
    /\ pc = "probe"
    /\ \/ /\ dev' = NewDevice
          /\ quirks' = quirks \cup {HID_QUIRK_INPUT_PER_APP}
          /\ pc' = "parse"
          /\ UNCHANGED << ret, probe_ret >>
       \/ /\ ret' = -ENOMEM
          /\ probe_ret' = << -ENOMEM >>
          /\ pc' = "failed"
          /\ UNCHANGED << dev, quirks >>
    /\ UNCHANGED << rdesc, report_enum, started, capability, resume_ret >>
    /\ UNCHANGED matcher_vars
    /\ UNCHANGED sink_vars
    /\ UNCHANGED activation_vars

\* a probe that goes on after the parser has failed
ProbeParseIgnoringError ==
    /\ pc = "parse"
    /\ \/ /\ report_enum' = rdesc
          /\ ret' = 0
       \/ /\ \E error \in ParseErrors : ret' = error
          /\ UNCHANGED report_enum
    /\ pc' = "fetch"
    /\ UNCHANGED << rdesc, quirks, dev, probe_ret, started, capability, resume_ret >>
    /\ UNCHANGED matcher_vars
    /\ UNCHANGED sink_vars
    /\ UNCHANGED activation_vars

\* hid_parse: the parser fills the report lists, or fails
ProbeParse ==
    /\ pc = "parse"
    /\ \/ /\ report_enum' = rdesc
          /\ ret' = 0
          /\ pc' = "fetch"
          /\ UNCHANGED probe_ret
       \/ /\ \E error \in ParseErrors : ret' = error
          /\ probe_ret' = << ret' >>
          /\ pc' = "failed"
          /\ UNCHANGED report_enum
    /\ UNCHANGED << rdesc, quirks, dev, started, capability, resume_ret >>
    /\ UNCHANGED matcher_vars
    /\ UNCHANGED sink_vars
    /\ UNCHANGED activation_vars

ProbeFetch ==
    /\ pc = "fetch"
    /\ dev' = hid_generic_fetch_resolution_multiplier(dev, report_enum)
    /\ pc' = "start"
    /\ UNCHANGED << rdesc, report_enum, quirks, ret, probe_ret, started, capability,
                    resume_ret >>
    /\ UNCHANGED matcher_vars
    /\ UNCHANGED sink_vars
    /\ UNCHANGED activation_vars

\* hid_hw_start: on success the input layer has created the input device and
\* called input_configured for it
ProbeStart ==
    /\ pc = "start"
    /\ \/ LET configured == hid_generic_input_configured(dev, "input0")
          IN  /\ dev' = configured.dev
              /\ capability' = configured.capability
              /\ started' = TRUE
              /\ ret' = 0
       \/ /\ \E error \in StartErrors : ret' = error
          /\ UNCHANGED << dev, capability, started >>
    /\ pc' = "activate"
    /\ UNCHANGED << rdesc, report_enum, quirks, probe_ret, resume_ret >>
    /\ UNCHANGED matcher_vars
    /\ UNCHANGED sink_vars
    /\ UNCHANGED activation_vars

\* one run of hid_generic_set_resolution_multiplier; whether the transport
\* carries the requests out is not reported back to the driver
Activate ==
    LET done == hid_generic_set_resolution_multiplier(dev, report_enum.feature)
    IN  /\ dev' = done.dev
        /\ report_enum' = [report_enum EXCEPT !.feature = done.feature]
        /\ requests' = done.requests
        /\ prev_requests' = requests
        /\ activation_dev' = dev
        /\ activations' = activations + 1
        /\ request_failed' \in (IF done.requests = <<>> THEN {FALSE} ELSE BOOLEAN)

ProbeActivate ==
    /\ pc = "activate"
    /\ Activate
    /\ pc' = "return"
    /\ UNCHANGED << rdesc, quirks, ret, probe_ret, started, capability, resume_ret >>
    /\ UNCHANGED matcher_vars
    /\ UNCHANGED sink_vars

\* probe returns what hid_hw_start returned
ProbeReturn ==
    /\ pc = "return"
    /\ probe_ret' = << ret >>
    /\ pc' = IF probe_ret'[1] = 0 THEN "bound" ELSE "failed"
    /\ UNCHANGED << rdesc, report_enum, quirks, dev, ret, started, capability,
                    resume_ret >>
    /\ UNCHANGED matcher_vars
    /\ UNCHANGED sink_vars
    /\ UNCHANGED activation_vars

(* --------------------------- the bound device ------------------------- *)
\* The core delivers the event (field, usage, value) of an input report:
\* it calls the driver's handler when the usage is in the usage table.
Event ==
    /\ pc \in {"bound", "resuming"}
    /\ \E r \in 1..Len(report_enum.input) :
         \E f \in 1..report_enum.input[r].maxfield :
           \E n \in 1..Len(report_enum.input[r].field[f].usage) :
             \E value \in EventValues :
               LET field == report_enum.input[r].field[f]
                   usage == field.usage[n]
                   handled == hid_generic_event(dev, field, usage, value)
               IN  /\ event' = << [usage |-> usage, field |-> field, value |-> value,
                                   after_failed_request |-> request_failed,
                                   during_resume |-> pc = "resuming"] >>
                   /\ IF hid_match_usage(usage)
                          THEN /\ emitted' = handled.emitted
                               /\ event_ret' = handled.ret
                          ELSE /\ emitted' = <<>>
                               /\ event_ret' = 0
    /\ UNCHANGED << rdesc, report_enum, quirks, dev, pc, ret, probe_ret, started,
                    capability, resume_ret >>
    /\ UNCHANGED matcher_vars
    /\ UNCHANGED activation_vars

\* a reset-resume that runs the discovery again before it activates
ResumeRediscovering ==
    /\ pc = "resuming"
    /\ LET again == hid_generic_fetch_resolution_multiplier(dev, report_enum)
           done == hid_generic_set_resolution_multiplier(again, report_enum.feature)
       IN  /\ dev' = done.dev
           /\ report_enum' = [report_enum EXCEPT !.feature = done.feature]
           /\ requests' = done.requests
           /\ prev_requests' = requests
           /\ activation_dev' = dev
           /\ activations' = activations + 1
           /\ request_failed' \in (IF done.requests = <<>> THEN {FALSE} ELSE BOOLEAN)
    /\ resume_ret' = << 0 >>
    /\ pc' = "bound"
    /\ UNCHANGED << rdesc, quirks, ret, probe_ret, started, capability >>
    /\ UNCHANGED matcher_vars
    /\ UNCHANGED sink_vars

\* the core calls the driver's reset_resume; the transport may still
\* deliver events until the handler has run
ResumeCall ==
    /\ pc = "bound"
    /\ activations < MaxActivations
    /\ pc' = "resuming"
    /\ UNCHANGED << rdesc, report_enum, quirks, dev, ret, probe_ret, started,
                    capability, resume_ret >>
    /\ UNCHANGED matcher_vars
    /\ UNCHANGED sink_vars
    /\ UNCHANGED activation_vars

\* hid_generic_reset_resume
Resume ==
    /\ pc = "resuming"
    /\ Activate
    /\ resume_ret' = << 0 >>
    /\ pc' = "bound"
    /\ UNCHANGED << rdesc, quirks, ret, probe_ret, started, capability >>
    /\ UNCHANGED matcher_vars
    /\ UNCHANGED sink_vars

(* --------------------------- specifications --------------------------- *)
\* the life of one matched device, from probe on
Init ==
    \E layout \in InputLayouts, desc \in FeatureDescriptors :
        Unbound([input |-> layout, feature |-> FeatureReports(desc)],
                {}, FALSE, << [name |-> hid_generic, id_match |-> TRUE] >>, "probe")

Next ==
    \/ ProbeAlloc
    \/ ProbeParse
    \/ ProbeFetch
    \/ ProbeStart
    \/ ProbeActivate
    \/ ProbeReturn
    \/ Event
    \/ ResumeCall
    \/ Resume

Spec == Init /\ [][Next]_vars

\* the matcher alone, over the force flag, the quirk and the registered drivers
InitMatch ==
    \E layout \in InputLayouts, q \in SUBSET {HID_QUIRK_HAVE_SPECIAL_DRIVER},
       force \in BOOLEAN, drvs \in DriverRegistries :
        Unbound([input |-> layout, feature |-> <<>>], q, force, drvs, "match")

NextMatch == Match

SpecMatch == InitMatch /\ [][NextMatch]_vars

(* ------------------- what the descriptor really says ------------------ *)
\* The device's descriptor read usage by usage, every usage of every field
\* counted: this is what the properties below speak about.
DeclaresUsage(reports, hid, collection) ==
    \E r \in 1..Len(reports) :
        \E f \in 1..Len(reports[r].field) :
            \E n \in 1..Len(reports[r].field[f].usage) :
                /\ reports[r].field[f].usage[n].hid = hid
                /\ reports[r].field[f].usage[n].collection_index = collection

\* the feature fields (report position, field position) carrying a
\* Resolution Multiplier usage
MultiplierFields ==
    UNION { { << r, f >> : f \in { g \in 1..Len(rdesc.feature[r].field) :
                  \E n \in 1..Len(rdesc.feature[r].field[g].usage) :
                      rdesc.feature[r].field[g].usage[n].hid
                          = HID_GD_RESOLUTION_MULTIPLIER } } :
            r \in 1..Len(rdesc.feature) }

FieldAt(p) == rdesc.feature[p[1]].field[p[2]]
CollectionOf(p) == FieldAt(p).usage[1].collection_index

\* those of them whose collection holds a wheel or horizontal-wheel usage
QualifyingFields ==
    { p \in MultiplierFields :
        \/ DeclaresUsage(rdesc.input, HID_GD_WHEEL, CollectionOf(p))
        \/ DeclaresUsage(rdesc.input, HID_CP_AC_PAN, CollectionOf(p)) }

\* the three things a wheel event of value v is to become, with the
\* product taken modulo 2^32 as the handler computes it
Translated(hires, legacy, v, multiplier) ==
    << input_report_rel(dev.device, hires, Mul32(v, multiplier)),
       input_report_rel(dev.device, legacy, v),
       input_sync(dev.device) >>

Delivered(hid) == event # <<>> /\ event[1].usage.hid = hid

(* ------------------------------ properties ---------------------------- *)
\* C1: every delivered event whose usage is the wheel (horizontal-wheel)
\* usage, of value V, makes the translator emit the high-resolution event
\* V x wheel_multiplier (V x hwheel_multiplier), the legacy event V and one
\* synchronisation marker, in this order, and report the event consumed.
C1_WheelEventTranslated ==
    /\ Delivered(HID_GD_WHEEL) =>
          /\ emitted = Translated("REL_WHEEL_HI_RES", "REL_WHEEL",
                                  event[1].value, dev.wheel_multiplier)
          /\ event_ret = 1
    /\ Delivered(HID_CP_AC_PAN) =>
          /\ emitted = Translated("REL_HWHEEL_HI_RES", "REL_HWHEEL",
                                  event[1].value, dev.hwheel_multiplier)
          /\ event_ret = 1

\* whether some registered driver other than the generic one matches the device
ClaimedByOther ==
    \E k \in 1..Len(drivers) :
        drivers[k].name # hid_generic /\ drivers[k].id_match

Flagged == HID_QUIRK_HAVE_SPECIAL_DRIVER \in quirks
Matched == match_result # <<>>
Accepted == Matched /\ match_result[1]
Rejected == Matched /\ ~match_result[1]

\* C2: the matcher accepts if forced; else rejects a device flagged as
\* needing a special driver; else accepts exactly when no registered driver
\* other than the generic one matches the device.
C2_MatchDecision ==
    Matched =>
        (match_result[1] <=>
            (ignore_special_driver \/ (~Flagged /\ ~ClaimedByOther)))

\* C2 witness: an unforced acceptance with the generic driver itself, whose
\* table matches every device, among the registered drivers
C2_Witness ==
    /\ Accepted
    /\ ~ignore_special_driver
    /\ \E k \in 1..Len(drivers) :
          drivers[k].name = hid_generic /\ drivers[k].id_match
    /\ \E k \in 1..Len(drivers) : drivers[k].name # hid_generic

\* C3 as stated: a device no other driver claims is accepted, and a device
\* some other driver claims is rejected unless forced.
C3_Original ==
    Matched =>
        /\ ~ClaimedByOther => match_result[1]
        /\ (ClaimedByOther /\ ~ignore_special_driver) => ~match_result[1]

\* C3 amended: a device no other driver claims is accepted unless it is
\* flagged as needing a special driver and the force flag is clear, in which
\* case it is rejected; a device some other driver claims is rejected unless
\* forced.
C3_FallbackMatching ==
    Matched =>
        /\ (~ClaimedByOther /\ (ignore_special_driver \/ ~Flagged)) => match_result[1]
        /\ (~ClaimedByOther /\ Flagged /\ ~ignore_special_driver) => ~match_result[1]
        /\ (ClaimedByOther /\ ~ignore_special_driver) => ~match_result[1]
        /\ (ClaimedByOther /\ ignore_special_driver) => match_result[1]

\* C3 witness: nobody else claims the device, and it is rejected all the same
C3_Witness ==
    Rejected /\ ~ClaimedByOther /\ Flagged /\ ~ignore_special_driver

\* C4: a device with three or more Resolution Multiplier feature fields,
\* each sharing a collection with a wheel or horizontal-wheel usage, has
\* both multipliers at 1 after discovery and never gets a write request.
C4_OverflowFallsBack ==
    Cardinality(QualifyingFields) >= 3 =>
        /\ dev.wheel_multiplier = 1
        /\ dev.hwheel_multiplier = 1
        /\ requests = <<>>
        /\ prev_requests = <<>>
        /\ (pc = "failed" => (ret # 0 /\ ~started))

\* C5: with exactly one Resolution Multiplier field, in the collection of
\* the wheel usage, of logical maximum L and physical maximum M, every
\* activation issues a write request for the field's report with the field
\* set to L, and a wheel event of value V is translated to V x M and V.
C5_SingleWheelMultiplier ==
    \A p \in MultiplierFields :
        (MultiplierFields = {p}
            /\ DeclaresUsage(rdesc.input, HID_GD_WHEEL, CollectionOf(p))) =>
            /\ activations >= 1 =>
                  \E k \in 1..Len(requests) :
                      /\ requests[k].report = rdesc.feature[p[1]].id
                      /\ requests[k].reqtype = "HID_REQ_SET_REPORT"
                      /\ \A n \in 1..Len(FieldAt(p).usage) :
                            FieldAt(p).usage[n].hid = HID_GD_RESOLUTION_MULTIPLIER
                                => requests[k].data[p[2]][n]
                                       = FieldAt(p).logical_maximum
            /\ Delivered(HID_GD_WHEEL) =>
                  emitted = Translated("REL_WHEEL_HI_RES", "REL_WHEEL",
                                       event[1].value,
                                       FieldAt(p).physical_maximum)

\* C6: a device with no Resolution Multiplier feature field keeps both
\* multipliers at 1, advertises neither high-resolution kind, gets no write
\* request, and has each wheel or horizontal-wheel event of value V
\* translated to a high-resolution event V and a legacy event V.
C6_NoMultiplierPassThrough ==
    MultiplierFields = {} =>
        /\ dev.wheel_multiplier = 1
        /\ dev.hwheel_multiplier = 1
        /\ capability = {}
        /\ requests = <<>>
        /\ prev_requests = <<>>
        /\ Delivered(HID_GD_WHEEL) =>
              emitted = Translated("REL_WHEEL_HI_RES", "REL_WHEEL", event[1].value, 1)
        /\ Delivered(HID_CP_AC_PAN) =>
              emitted = Translated("REL_HWHEEL_HI_RES", "REL_HWHEEL", event[1].value, 1)

C8_Original ==
    (event # <<>> /\ event[1].after_failed_request
        /\ event[1].usage.hid \in {HID_GD_WHEEL, HID_CP_AC_PAN}
        /\ emitted # <<>>) =>
        /\ emitted[1].code \in {"REL_WHEEL_HI_RES", "REL_HWHEEL_HI_RES"}
        /\ emitted[1].value = event[1].value

\* the multiplier the handler applies for a high-resolution event code
MultiplierFor(code) ==
    IF code = "REL_WHEEL_HI_RES" THEN dev.wheel_multiplier ELSE dev.hwheel_multiplier

\* C8 amended: a failed write request is not fatal and the driver does not
\* see it: the device of a successful start stays bound, the activation
\* leaves the multipliers as discovered (not both 1, since a request was
\* issued), and every high-resolution event emitted afterwards has
\* magnitude V x the discovered multiplier of its axis, modulo 2^32.
C8_FailedWriteKeepsMultiplier ==
    /\ request_failed =>
          /\ dev.wheel_multiplier = activation_dev.wheel_multiplier
          /\ dev.hwheel_multiplier = activation_dev.hwheel_multiplier
          /\ ~(dev.wheel_multiplier = 1 /\ dev.hwheel_multiplier = 1)
          /\ started => (pc \in {"return", "bound", "resuming"} /\ ret = 0)
    /\ (event # <<>> /\ event[1].after_failed_request /\ emitted # <<>>) =>
          /\ pc \in {"bound", "resuming"}
          /\ emitted[1].code \in {"REL_WHEEL_HI_RES", "REL_HWHEEL_HI_RES"}
          /\ emitted[1].value = Mul32(event[1].value, MultiplierFor(emitted[1].code))

\* C8 witness: after a failed request a wheel event of value 3 came out
\* scaled by the discovered multiplier 8
C8_Witness ==
    /\ event # <<>>
    /\ event[1].after_failed_request
    /\ event[1].usage.hid = HID_GD_WHEEL
    /\ event[1].value = 3
    /\ Len(emitted) = 3
    /\ emitted[1].value = 24
    /\ dev.wheel_multiplier = 8

\* C9 as stated: of two activations in succession the second issues the
\* requests of the first, reports and field values alike, and neither
\* changes the device context.
C9_Original ==
    /\ activations >= 1 => dev = activation_dev
    /\ activations >= 2 => requests = prev_requests

\* the value request k carries for the field of slot k
SlotValue(reqs, k) == reqs[k].data[dev.field_index[k] + 1][1]

\* C9 amended: no activation changes the device context; two activations
\* in succession issue requests for the same reports in the same order,
\* each carrying the same value for the field of its slot; and from the
\* second activation on the requests are the same in every field. (In the
\* first activation, at probe, the request of slot 0 goes out before the
\* field of slot 1 is set, which shows when both fields are in one report.)
C9_ActivationIdempotent ==
    /\ activations >= 1 => dev = activation_dev
    /\ activations >= 2 =>
          /\ Len(requests) = Len(prev_requests)
          /\ \A k \in 1..Len(requests) :
                /\ requests[k].report = prev_requests[k].report
                /\ requests[k].reqtype = prev_requests[k].reqtype
                /\ SlotValue(requests, k) = SlotValue(prev_requests, k)
    /\ activations >= 3 => requests = prev_requests

\* C9 witness: a third activation in a row that wrote both slots
C9_Witness ==
    /\ activations >= 3
    /\ Len(requests) = 2
    /\ requests = prev_requests
    /\ dev.report_id[2] # -1

\* C10: a high-resolution event kind is advertised on the input device
\* exactly when its multiplier exceeds 1 at the time the capabilities are
\* finalised, and in every later state an advertised kind has a multiplier
\* above 1; nothing is advertised for a device that did not start.
C10_AdvertisedIffMultiplier ==
    /\ started =>
          /\ "REL_WHEEL_HI_RES" \in capability
                <=> UnsignedGreaterThanOne(dev.wheel_multiplier)
          /\ "REL_HWHEEL_HI_RES" \in capability
                <=> UnsignedGreaterThanOne(dev.hwheel_multiplier)
    /\ ~started => capability = {}

\* C10 witness: a bound device, resumed since, advertising the wheel kind
\* alone, its horizontal multiplier being 1
C10_Witness ==
    /\ pc = "bound"
    /\ activations >= 2
    /\ capability = {"REL_WHEEL_HI_RES"}
    /\ dev.wheel_multiplier = 8
    /\ dev.hwheel_multiplier = 1

(* ------------------------ C11 .. C20: the claims ----------------------- *)
\* C11: during attach the activation runs exactly once and only after the
\* device has been started: before the start has completed, and for a
\* device whose start failed, no write request has been issued; a start
\* failure is what attach returns.
C11_ActivationOnlyAfterStart ==
    /\ pc \in {"probe", "parse", "fetch", "start", "activate"} =>
          (activations = 0 /\ requests = <<>>)
    /\ pc = "return" => activations = 1
    /\ ~started => requests = <<>>
    /\ (pc = "failed" /\ activations >= 1) =>
          (probe_ret = << ret >> /\ ret \in StartErrors /\ ~started)

\* an unsigned 32-bit value, held as its bit pattern, is at least 1
UnsignedPositive(m) == m # 0

\* C12: in every reachable state both multipliers are at least 1, whatever
\* physical maximum (0 and negative included) the Resolution Multiplier
\* fields of the device declare.
C12_MultipliersPositive ==
    /\ UnsignedPositive(dev.wheel_multiplier)
    /\ UnsignedPositive(dev.hwheel_multiplier)

\* what the discovery makes of the device's descriptor
Discovered == hid_generic_fetch_resolution_multiplier(NewDevice, rdesc)

AttachCompleted == pc \in {"bound", "resuming"}

\* the last event delivered came out as the handler translates it with the
\* multipliers the discovery found
TranslatedAsDiscovered ==
    event # <<>> =>
        LET e == event[1]
            d == [dev EXCEPT !.wheel_multiplier = Discovered.wheel_multiplier,
                             !.hwheel_multiplier = Discovered.hwheel_multiplier]
            handled == hid_generic_event(d, e.field, e.usage, e.value)
        IN  IF hid_match_usage(e.usage)
                THEN emitted = handled.emitted /\ event_ret = handled.ret
                ELSE emitted = <<>> /\ event_ret = 0

MultipliersAsDiscovered ==
    AttachCompleted =>
        /\ dev.wheel_multiplier = Discovered.wheel_multiplier
        /\ dev.hwheel_multiplier = Discovered.hwheel_multiplier

MultipliersNotWritten ==
    AttachCompleted =>
        /\ dev.wheel_multiplier' = dev.wheel_multiplier
        /\ dev.hwheel_multiplier' = dev.hwheel_multiplier

\* C13: once attach has completed no step writes a multiplier, however
\* event deliveries and reset-resumes interleave: the multipliers stay what
\* the discovery found, and an event delivered before, during or after a
\* resume is translated with them.
C13_MultipliersFrozenAfterAttach ==
    /\ [](MultipliersAsDiscovered /\ TranslatedAsDiscovered)
    /\ [][MultipliersNotWritten]_vars

\* C13 witness: a resume has run and another is in progress; a wheel event
\* of value 3 delivered during it came out scaled by the discovered 8
C13_Witness ==
    /\ pc = "resuming"
    /\ activations >= 2
    /\ event # <<>>
    /\ event[1].during_resume
    /\ event[1].usage.hid = HID_GD_WHEEL
    /\ event[1].value = 3
    /\ emitted # <<>>
    /\ emitted[1].code = "REL_WHEEL_HI_RES"
    /\ emitted[1].value = 24

\* probe's ret holds a parse error only when hid_parse has failed: the
\* errors of the parser are none of allocation and start
ParseFailed == ret \in ParseErrors

\* C14: when the parser fails at attach, attach returns the parser's error
\* as it is and runs neither discovery, start nor activation: no slot is
\* assigned, both multipliers are 1, nothing is advertised and no write
\* request is issued.
C14_ParseFailureStopsAttach ==
    ParseFailed =>
        /\ pc = "failed"
        /\ probe_ret = << ret >>
        /\ dev = NewDevice
        /\ ~started
        /\ capability = {}
        /\ activations = 0
        /\ requests = <<>>
        /\ report_enum.feature = <<>>

\* C14 witness: the parser failed with -EIO on a descriptor whose
\* Resolution Multiplier field discovery would have taken
C14_Witness ==
    /\ pc = "failed"
    /\ probe_ret = << -5 >>
    /\ Discovered.report_id[1] # -1
    /\ Discovered.wheel_multiplier = 8
    /\ dev = NewDevice

\* the slots of a device context that hold a field
OccupiedSlots(d) == {k \in 1..2 : d.report_id[k] # -1}

\* C15: a failed write request of an activation is not acted upon: attach
\* returns what the start returned and resume returns 0 whatever became of
\* the requests, and nothing is retried, an activation issuing at most one
\* request for each occupied slot, the k-th for the report of slot k, and
\* at most two in all.
C15_WriteFailureIgnored ==
    /\ Len(requests) <= Cardinality(OccupiedSlots(activation_dev))
    /\ Len(requests) <= 2
    /\ \A k \in 1..Len(requests) : requests[k].report = activation_dev.report_id[k]
    /\ (activations >= 1 /\ probe_ret # <<>>) =>
          /\ probe_ret = << ret >>
          /\ ret \in {0} \cup StartErrors
          /\ ret = 0 <=> started
    /\ activations >= 2 => resume_ret = << 0 >>
    /\ (request_failed /\ started) => pc \in {"return", "bound", "resuming"}

\* C15 witness: both requests of a resume's activation failed; the resume
\* returned 0 and the device, attached with result 0, is still bound
C15_Witness ==
    /\ request_failed
    /\ activations >= 2
    /\ Len(requests) = 2
    /\ resume_ret = << 0 >>
    /\ probe_ret = << 0 >>
    /\ pc = "bound"

\* the usage identifiers and collection indexes usage_in_collection is
\* asked about
QueriedUsages == {HID_GD_WHEEL, HID_CP_AC_PAN, HID_GD_X}
QueriedCollections == {0, 1, 2}

\* C16: usage_in_collection(usage_id, collection) is true exactly when some
\* usage of some field of some input report has that identifier and that
\* collection index, fields of several usages included.
C16_UsageInCollectionExact ==
    \A hid \in QueriedUsages, collection \in QueriedCollections :
        usage_in_collection(report_enum, hid, collection)
            <=> DeclaresUsage(report_enum.input, hid, collection)

\* the order in which discovery traverses the feature fields
Before(p, q) == p[1] < q[1] \/ (p[1] = q[1] /\ p[2] < q[2])

\* the place of a qualifying field among the qualifying fields, from 1
Rank(p) == Cardinality({q \in QualifyingFields : Before(q, p)}) + 1

\* the physical maximum of the last qualifying field whose collection
\* holds the usage hid, 1 without such a field
ExpectedMultiplier(hid) ==
    LET sharing == {p \in QualifyingFields :
                       DeclaresUsage(rdesc.input, hid, CollectionOf(p))}
    IN  IF sharing = {} THEN 1
        ELSE FieldAt(CHOOSE p \in sharing :
                         \A q \in sharing \ {p} : Before(q, p)).physical_maximum

DiscoveryDone ==
    \/ pc \in {"start", "activate", "return", "bound", "resuming"}
    \/ pc = "failed" /\ activations >= 1

\* C17: with at most two qualifying Resolution Multiplier fields, discovery
\* puts the k-th of them in traversal order in slot k-1, report id and
\* field index together, leaves the other slots empty, and sets the
\* multiplier of each axis to the physical maximum of the last qualifying
\* field sharing a collection with that axis, 1 without one; a field
\* sharing its collection with both axes sets both and takes one slot.
C17_DiscoveryAssignsSlots ==
    (DiscoveryDone /\ Cardinality(QualifyingFields) <= 2) =>
        /\ \A p \in QualifyingFields :
              /\ dev.report_id[Rank(p)] = rdesc.feature[p[1]].id
              /\ dev.field_index[Rank(p)] = FieldAt(p).index
        /\ \A k \in 1..2 :
              /\ k > Cardinality(QualifyingFields) => dev.report_id[k] = -1
              /\ dev.report_id[k] = -1 <=> dev.field_index[k] = -1
        /\ dev.report_id[2] # -1 => dev.report_id[1] # -1
        /\ dev.wheel_multiplier = ExpectedMultiplier(HID_GD_WHEEL)
        /\ dev.hwheel_multiplier = ExpectedMultiplier(HID_CP_AC_PAN)

\* the feature field a slot of the device context records
SlotField(feature, d, k) ==
    feature[report_id_hash(feature, d.report_id[k])].field[d.field_index[k] + 1]

\* the value the field of slot k held when request k was issued
RequestedValue(k) ==
    requests[k].data[dev.field_index[k] + 1]
                    [SlotField(rdesc.feature, dev, k).usage[1].usage_index + 1]

\* C18: an activation with both multipliers at 1 changes no field value and
\* issues no request; any other activation visits every occupied slot,
\* sets the recorded field's value to that field's logical maximum, not to
\* its physical maximum, and issues one request for the report of the field.
C18_ActivationWritesLogicalMaximum ==
    activations >= 1 =>
        IF activation_dev.wheel_multiplier = 1 /\ activation_dev.hwheel_multiplier = 1
            THEN /\ requests = <<>>
                 /\ report_enum.feature = rdesc.feature
        ELSE /\ Len(requests) = Cardinality(OccupiedSlots(dev))
             /\ \A k \in OccupiedSlots(dev) :
                   LET field == SlotField(report_enum.feature, dev, k)
                   IN  /\ field.value[field.usage[1].usage_index + 1]
                              = field.logical_maximum
                       /\ requests[k].report = dev.report_id[k]
                       /\ requests[k].reqtype = "HID_REQ_SET_REPORT"
                       /\ RequestedValue(k) = field.logical_maximum

\* C18 witness: an activation with the multipliers 8 and 4 has written the
\* logical maxima 1 and 3 to the fields of both slots, one request each
C18_Witness ==
    /\ activations >= 1
    /\ activation_dev.wheel_multiplier = 8
    /\ activation_dev.hwheel_multiplier = 4
    /\ OccupiedSlots(dev) = {1, 2}
    /\ Len(requests) = 2
    /\ RequestedValue(1) = 1
    /\ RequestedValue(2) = 3

\* C18 witness of the other case: an activation with both multipliers at 1
\* and a slot occupied has issued nothing
C18_NoOpReached ==
    /\ activations >= 1
    /\ dev.wheel_multiplier = 1
    /\ dev.hwheel_multiplier = 1
    /\ OccupiedSlots(dev) # {}
    /\ requests = <<>>

\* the Resolution Multiplier fields whose collection holds neither a wheel
\* nor a horizontal-wheel usage
NonQualifyingFields == MultiplierFields \ QualifyingFields

\* the descriptor with those fields made ordinary fields, their places kept
WithoutNonQualifying ==
    [rdesc EXCEPT !.feature =
        [r \in 1..Len(rdesc.feature) |->
            [rdesc.feature[r] EXCEPT !.field =
                [f \in 1..Len(rdesc.feature[r].field) |->
                    IF << r, f >> \in NonQualifyingFields
                        THEN [rdesc.feature[r].field[f] EXCEPT !.usage =
                                 [n \in 1..Len(rdesc.feature[r].field[f].usage) |->
                                     [rdesc.feature[r].field[f].usage[n]
                                         EXCEPT !.hid = HID_GD_X]]]
                    ELSE rdesc.feature[r].field[f]]]]]

\* C19: a Resolution Multiplier field whose collection holds neither a
\* wheel nor a horizontal-wheel usage is ignored by discovery: handled in
\* any device context it leaves multipliers and slots as they are, and
\* discovery hands on the context it does on the descriptor without such
\* fields, so that they never count towards the limit of two slots.
C19_ForeignMultiplierIgnored ==
    /\ \A p \in NonQualifyingFields :
          handle_resolution_multiplier(dev, rdesc, rdesc.feature[p[1]],
                                       FieldAt(p), FieldAt(p).usage[1]) = dev
    /\ pc = "start" =>
          LET d == hid_generic_fetch_resolution_multiplier(NewDevice,
                                                           WithoutNonQualifying)
          IN  /\ dev.wheel_multiplier = d.wheel_multiplier
              /\ dev.hwheel_multiplier = d.hwheel_multiplier
              /\ dev.report_id = d.report_id
              /\ dev.field_index = d.field_index

\* C19 witness: discovery has passed a Resolution Multiplier field of a
\* collection without wheel between two fields of the wheel's collection:
\* both slots are taken by those two and the multiplier 8 stands
C19_Witness ==
    /\ DiscoveryDone
    /\ \E p \in NonQualifyingFields :
          /\ FieldAt(p).usage[1].hid = HID_GD_RESOLUTION_MULTIPLIER
          /\ \E q \in QualifyingFields : Before(q, p)
          /\ \E q \in QualifyingFields : Before(p, q)
    /\ Cardinality(QualifyingFields) = 2
    /\ OccupiedSlots(dev) = {1, 2}
    /\ dev.wheel_multiplier = 8

(* ------------------- the translator over the full range ---------------- *)
\* raw values of an event, up to the ends of the __s32 range
WideValues ==
    {INT_MIN, -1073741824, -65536, -2, -1, 0, 1, 3, 65535, 1073741823, INT_MAX}

\* physical maxima of a Resolution Multiplier field: as multipliers, the
\* unsigned values 0, 1, 2, 8, 2^15, 2^16, 2^31 - 1, 2^31, 2^32 - 2, 2^32 - 1
WideMultipliers == {0, 1, 2, 8, 32768, 65536, INT_MAX, INT_MIN, -2, -1}
HorizontalMultipliers == {1, 8}

\* a device with a wheel and a horizontal wheel, attached and started, its
\* multipliers discovered from the physical maxima mw and mh, and an event
\* of field f with value v about to reach the handler
ReadyToTranslate(mw, mh, f, v) ==
    LET input == << Report(1, << Field(0, <<HID_GD_WHEEL>>, 0, 127, 127),
                                 Field(1, <<HID_CP_AC_PAN>>, 1, 127, 127) >>) >>
        feature == << Report(1, << Field(0, <<HID_GD_RESOLUTION_MULTIPLIER>>, 0, 1, mw),
                                   Field(1, <<HID_GD_RESOLUTION_MULTIPLIER>>, 1, 1, mh) >>) >>
        descriptor == [input |-> input, feature |-> feature]
        fetched == hid_generic_fetch_resolution_multiplier(NewDevice, descriptor)
        configured == hid_generic_input_configured(fetched, "input0")
        done == hid_generic_set_resolution_multiplier(configured.dev, feature)
    IN  /\ rdesc = descriptor
        /\ report_enum = [input |-> input, feature |-> done.feature]
        /\ quirks = {HID_QUIRK_INPUT_PER_APP}
        /\ ignore_special_driver = FALSE
        /\ drivers = << [name |-> hid_generic, id_match |-> TRUE] >>
        /\ match_result = <<>>
        /\ dev = done.dev
        /\ pc = "translate"
        /\ ret = 0
        /\ probe_ret = << 0 >>
        /\ started = TRUE
        /\ capability = configured.capability
        /\ event = << [usage |-> input[1].field[f].usage[1],
                       field |-> input[1].field[f], value |-> v,
                       after_failed_request |-> FALSE, during_resume |-> FALSE] >>
        /\ emitted = <<>>
        /\ event_ret = 0
        /\ requests = done.requests
        /\ prev_requests = <<>>
        /\ activation_dev = configured.dev
        /\ activations = 1
        /\ request_failed = FALSE
        /\ resume_ret = <<>>

InitTranslate ==
    \E mw \in WideMultipliers, mh \in HorizontalMultipliers, f \in 1..2,
       v \in WideValues :
        ReadyToTranslate(mw, mh, f, v)

\* the handler is called for the pending event
Translate ==
    /\ pc = "translate"
    /\ LET handled == hid_generic_event(dev, event[1].field, event[1].usage,
                                        event[1].value)
       IN  /\ emitted' = handled.emitted
           /\ event_ret' = handled.ret
    /\ pc' = "translated"
    /\ UNCHANGED << rdesc, report_enum, quirks, dev, ret, probe_ret, started,
                    capability, event, resume_ret >>
    /\ UNCHANGED matcher_vars
    /\ UNCHANGED activation_vars

NextTranslate == Translate

SpecTranslate == InitTranslate /\ [][NextTranslate]_vars

\* whether v times the multiplier, an unsigned number held as its bit
\* pattern m, lies in the signed 32-bit range
ProductInRange(v, m) ==
    IF v = 0 \/ m = 0 THEN TRUE
    ELSE IF m < 0 THEN v = -1 /\ m = INT_MIN
    ELSE IF v > 0 THEN m <= INT_MAX \div v
    ELSE IF v = INT_MIN THEN m = 1
    ELSE \/ m <= INT_MAX \div (-v)
         \/ INT_MAX % (-v) = (-v) - 1 /\ m - 1 <= INT_MAX \div (-v)

\* that product as a number, for a product in the range
Product(v, m) ==
    IF m >= 0 THEN v * m
    ELSE IF v = 0 THEN 0 ELSE INT_MIN

\* C20: the high-resolution magnitude keeps the sign of the raw value: for
\* every raw value V and multiplier m whose product lies in the signed
\* 32-bit range the handler emits that very product, although it holds the
\* multiplier unsigned and multiplies modulo 2^32; the legacy event
\* carries V itself.
C20_SignedProductEmitted ==
    (pc = "translated" /\ emitted # <<>>) =>
        LET v == event[1].value
            m == MultiplierFor(emitted[1].code)
        IN  /\ emitted[2].value = v
            /\ ProductInRange(v, m) => emitted[1].value = Product(v, m)

\* C20 witness: the value -2 with the multiplier 1 came out as -2
C20_Witness ==
    /\ pc = "translated"
    /\ event[1].value = -2
    /\ dev.wheel_multiplier = 1
    /\ emitted # <<>>
    /\ emitted[1].code = "REL_WHEEL_HI_RES"
    /\ emitted[1].value = -2

\* C20, at the end of the range: -65536 with the multiplier 32768 came out
\* as -2^31
C20_BoundaryReached ==
    /\ pc = "translated"
    /\ event[1].value = -65536
    /\ dev.wheel_multiplier = 32768
    /\ emitted # <<>>
    /\ emitted[1].value = INT_MIN

====
